---- MODULE Spec2Model ----
(***************************************************************************)
(* Model of the session state machine of contexts/AuthContext.tsx          *)
(* (AuthProvider): the React state user / isLoading / confirmation /       *)
(* viewAsState, the AsyncStorage key-value store, and the asynchronous     *)
(* operations initializeAuth, sendOTP, verifyOTP, logout, refreshUser and  *)
(* setUser.  Every operation is cut at its await points: one action per    *)
(* resumption, which runs the synchronous code up to the next await.       *)
(*                                                                         *)
(* External collaborators (AsyncStorage, the Firebase phone-auth provider, *)
(* the backend reached through apiService, the router) are inputs: each    *)
(* call completes with an outcome drawn from a small set.  AsyncStorage    *)
(* batches are all-or-nothing and a batch holding a non-string value is    *)
(* rejected.                                                               *)
(***************************************************************************)
EXTENDS Integers, FiniteSets, Sequences, TLC

(***************************************************************************)
(* Bounds of the model.                                                    *)
(***************************************************************************)
\* Number of challenge handles the identity provider hands out.
MaxHandles == 2

\* Operations in flight at a time in the specification of overlapping calls.
MaxInFlight == 2

(***************************************************************************)
(* Values.                                                                 *)
(***************************************************************************)
Null == "null"              \* JavaScript null
Undefined == "undefined"    \* JavaScript undefined (a missing field)
Absent == "<absent>"        \* a key the store does not hold (multiGet gives null)

Users == {"u1", "u2"}       \* user profiles, named by their id
NoUser == {Null, Undefined}

AccessTokens == {"a1", "a2"}
RefreshTokenOf(a) == IF a = "a1" THEN "r1" ELSE "r2"

Handles == 1..MaxHandles
NoHandle == 0               \* confirmation = null

\* ViewAsState as constructed at lines 86-90, 123-127, 244-248, 298-302.
EmptyViewAs ==
  [isViewingAs |-> FALSE, originalUser |-> Null, currentViewRole |-> Null]

\* View-as records a stored blob can decode to: a well-formed overlay, the
\* empty form, and a blob whose isViewingAs flag has no originalUser.
ViewingAsU1 ==
  [isViewingAs |-> TRUE, originalUser |-> "u1", currentViewRole |-> "customer"]
OrphanViewAs ==
  [isViewingAs |-> TRUE, originalUser |-> Null, currentViewRole |-> "customer"]

Keys == {"accessToken", "refreshToken", "userProfile", "viewAsState"}

(***************************************************************************)
(* Serialization.  JSON.stringify gives a string for a value and undefined *)
(* for undefined; JSON.parse inverts it and throws on any other text.      *)
(***************************************************************************)
Corrupt == "{not json"
SyntaxError == "<SyntaxError>"

Stringify(v) ==
  IF v = Undefined THEN Undefined ELSE "json:" \o v

ParseUser(s) ==
  CASE s = "json:u1" -> "u1"
    [] s = "json:u2" -> "u2"
    [] s = "json:null" -> Null
    [] OTHER -> SyntaxError

ViewAsBlobs == {"json:viewingAsU1", "json:emptyViewAs", "json:orphanViewAs"}

ParseViewAs(s) ==
  CASE s = "json:viewingAsU1" -> ViewingAsU1
    [] s = "json:emptyViewAs" -> EmptyViewAs
    [] s = "json:orphanViewAs" -> OrphanViewAs
    [] OTHER -> EmptyViewAs   \* never used: guarded by ViewAsParses

ViewAsParses(s) == s \in ViewAsBlobs

\* JavaScript truthiness of a value read from the store.
Truthy(s) == s # Absent /\ s # ""

(***************************************************************************)
(* State.                                                                  *)
(***************************************************************************)
VARIABLES
  user,          \* useState<User | null>            (line 83)
  isLoading,     \* useState(true)                   (line 84)
  confirmation,  \* useState<any>(null)              (line 85)
  viewAsState,   \* useState<ViewAsState>            (lines 86-90)
  store,         \* AsyncStorage: key -> string or Absent
  ipc, ifail, inav, ime,   \* initializeAuth: position, failure seen, routes, /auth/me called
  istore,                  \* initializeAuth: the store as it was when multiGet completed
  iout,                    \* initializeAuth: a logout completed while /auth/me was awaited
  rpc, rnav, rfail,        \* refreshUser called through the context value
  rout,                    \* refreshUser: a logout completed while /auth/me was awaited
  vpc, vconf, vresp, vcalls, vpre,  \* verifyOTP: position, captured handle, login response, calls made, state at call
  vrole, vreq,             \* verifyOTP: its role argument, the role of the /auth/login body
  vover,                   \* verifyOTP: a logout has been in flight during this call
  lpc,                     \* logout
  lpre,                    \* logout: the state at the call, when the call follows a logout directly
  lover,                   \* logout: a verifyOTP has been in flight during this call
  spc, sphone,             \* sendOTP: position, the number given to the provider
  nextHandle,              \* next handle the provider will issue
  done,                    \* the operation that completed in the last step, with its result
  boot, logins,            \* history: the store was empty at start, a verifyOTP has succeeded
  replaced                 \* history: the pending handle the held one took the place of

vars == <<user, isLoading, confirmation, viewAsState, store,
          ipc, ifail, inav, ime, istore, iout, rpc, rnav, rfail, rout,
          vpc, vconf, vresp, vcalls, vpre, vrole, vreq, vover,
          lpc, lpre, lover, spc, sphone,
          nextHandle, done, boot, logins, replaced>>

session == <<user, isLoading, confirmation, viewAsState, store>>
initLocals == <<ipc, ifail, inav, ime, istore, iout>>
refreshLocals == <<rpc, rnav, rfail, rout>>
verifyLocals == <<vpc, vconf, vresp, vcalls, vpre, vrole, vreq, vover>>
logoutLocals == <<lpc, lpre, lover>>
history == <<boot, logins>>
challenge == <<confirmation, replaced>>
sendLocals == <<spc, sphone>>

\* isAuthenticated = !!user (line 92)
isAuthenticated == user # Null

(***************************************************************************)
(* AsyncStorage.                                                           *)
(***************************************************************************)
EmptyStore == [k \in Keys |-> Absent]

\* multiSet(pairs): writes every pair, or (on failure) none.
MultiSet(st, pairs) ==
  [k \in Keys |-> IF k \in DOMAIN pairs THEN pairs[k] ELSE st[k]]

\* A batch is accepted only when all its values are strings.
Storable(pairs) == \A k \in DOMAIN pairs : pairs[k] # Undefined /\ pairs[k] # Null

\* multiRemove(keys)
MultiRemove(st, keys) ==
  [k \in Keys |-> IF k \in keys THEN Absent ELSE st[k]]

\* clearAuthData (lines 256-263): the keys it removes.
ClearedKeys == {"accessToken", "refreshToken", "userProfile", "viewAsState"}

ClearAuthData(st) == MultiRemove(st, ClearedKeys)

StoreErr == "storage error"

(***************************************************************************)
(* Results of operations as their caller sees them, with what the          *)
(* operation did on the way: the failure it met, the routes it passed to   *)
(* router.replace, the external calls it made, and for verifyOTP the state *)
(* at the call, the handle it confirmed against, the login response and    *)
(* the roles; for initializeAuth the store as multiGet found it (pre);     *)
(* for a logout called directly after a logout, the state at the call      *)
(* (snap); whether a verifyOTP and a logout overlapped and this is the     *)
(* second of them to complete (over); whether a logout completed while     *)
(* this refreshUser or initializeAuth awaited /auth/me (out).  Locals of   *)
(* an operation are dropped when it completes.                             *)
(***************************************************************************)
NoLogin == [thrown |-> FALSE, success |-> FALSE, user |-> Null,
            accessToken |-> "", error |-> ""]

NoPre == [user |-> Null, store |-> EmptyStore]

NoError == [code |-> "", message |-> ""]

\* No state recorded at the call of a logout.
NoSnap == [after |-> FALSE, user |-> Null, confirmation |-> NoHandle,
           viewAsState |-> EmptyViewAs, store |-> EmptyStore]

NoResult ==
  [op |-> "none", ok |-> TRUE, message |-> "", nextScreen |-> "", nav |-> {},
   fail |-> "none", calls |-> {}, pre |-> NoPre, conf |-> NoHandle,
   resp |-> NoLogin, role |-> "", req |-> "", error |-> NoError,
   snap |-> NoSnap, over |-> FALSE, out |-> FALSE]

Returned(o, n, f, c) ==
  [NoResult EXCEPT !.op = o, !.nav = n, !.fail = f, !.calls = c]

Rejected(o, m, n, f, c) ==
  [NoResult EXCEPT !.op = o, !.ok = FALSE, !.message = m, !.nav = n,
                   !.fail = f, !.calls = c]

(***************************************************************************)
(* Initial state: the provider has mounted, useEffect has called           *)
(* initializeAuth, which awaits multiGet.  The store holds whatever an     *)
(* earlier run of the application left.                                    *)
(***************************************************************************)
InitStores ==
  { [k \in Keys |->
       CASE k = "accessToken" -> a
         [] k = "refreshToken" -> IF a = Absent THEN Absent ELSE RefreshTokenOf(a)
         [] k = "userProfile" -> p
         [] OTHER -> w] :
    a \in {Absent, "a1"},
    p \in {Absent, Stringify("u1"), Stringify(Null), Corrupt},
    w \in {Absent, "json:viewingAsU1", "json:orphanViewAs", Corrupt} }

Init ==
  /\ user = Null
  /\ isLoading = TRUE
  /\ confirmation = NoHandle
  /\ viewAsState = EmptyViewAs
  /\ store \in InitStores
  /\ ipc = "multiGet" /\ ifail = "none" /\ inav = {} /\ ime = FALSE
  /\ istore = EmptyStore /\ iout = FALSE
  /\ rpc = "idle" /\ rnav = {} /\ rfail = "none" /\ rout = FALSE
  /\ vpc = "idle" /\ vconf = NoHandle /\ vresp = NoLogin /\ vcalls = {}
  /\ vpre = NoPre /\ vrole = "" /\ vreq = "" /\ vover = FALSE
  /\ lpc = "idle" /\ lpre = NoSnap /\ lover = FALSE
  /\ spc = "idle" /\ sphone = <<>>
  /\ nextHandle = 1
  /\ done = NoResult
  /\ boot = (store = EmptyStore)
  /\ logins = FALSE
  /\ replaced = NoHandle

(***************************************************************************)
(* refreshUser (lines 268-307), shared by initializeAuth's validation step *)
(* and by the call through the context value.                              *)
(***************************************************************************)
InitialRoute == "/intialscreen"
AuthRoute == "/(auth)"

\* What apiService.get('/auth/me') can produce: a thrown error, a response
\* with success = false, a response with success = true carrying a user, and
\* one carrying no user.
MeResponses ==
  { [thrown |-> TRUE, success |-> FALSE, user |-> Undefined],
    [thrown |-> FALSE, success |-> FALSE, user |-> Undefined] }
  \cup { [thrown |-> FALSE, success |-> TRUE, user |-> u] : u \in Users \cup NoUser }

\* The try block (lines 269-291) leaves through its catch: the call threw,
\* the response is not a success (line 289), or reading
\* response.data.user.hasOnboarded of a missing user raised (line 277).
RefreshThrows(resp) ==
  resp.thrown \/ ~resp.success \/ resp.user \in NoUser

\* Routes the try block passes to router.replace (lines 280-287).
RefreshTryNav(resp) ==
  IF resp.thrown THEN {}
  ELSE IF resp.success
       THEN IF resp.user \in NoUser THEN {} ELSE {InitialRoute}
       ELSE {AuthRoute}

\* setUser({...response.data.user, hasOnboarded: ...}) (lines 275-278).
RefreshedUser(resp) == resp.user

\* The state reset of the catch block, after clearAuthData (lines 297-305).
RefreshPurgedUser(u) == Null
RefreshPurgedNav == {AuthRoute}

(***************************************************************************)
(* initializeAuth (lines 98-136).                                          *)
(***************************************************************************)
\* finally (line 134), and the end of the call.
InitFinally(result, seen) ==
  /\ isLoading' = FALSE
  /\ ipc' = "done" /\ ifail' = "none" /\ inav' = {} /\ ime' = FALSE
  /\ istore' = EmptyStore /\ iout' = FALSE
  /\ done' = [result EXCEPT !.pre = [user |-> Null, store |-> seen],
                            !.out = iout]

InitCalls == IF ime THEN {"me"} ELSE {}

\* Faulty variant of SessionStored: only the profile is looked at.
SessionStoredProfileOnly(a, p) == Truthy(p)

\* if (accessToken[1] && userProfile[1]) (line 106)
SessionStored(a, p) == Truthy(a) /\ Truthy(p)

\* multiGet completes (lines 100-113, and 117 up to the await in refreshUser).
InitRead ==
  /\ ipc = "multiGet"
  /\ UNCHANGED <<confirmation, store, refreshLocals, verifyLocals, logoutLocals, sendLocals,
                 nextHandle, history, replaced>>
  /\ \E ok \in BOOLEAN :
       LET a == store["accessToken"]
           p == store["userProfile"]
           w == store["viewAsState"]
       IN
       IF ~ok
       THEN \* multiGet rejected: outer catch, await clearAuthData (line 132)
            /\ ifail' = "read" /\ ipc' = "outerClear" /\ done' = NoResult
            /\ istore' = store /\ UNCHANGED iout
            /\ UNCHANGED <<user, isLoading, viewAsState, inav, ime>>
       ELSE IF SessionStored(a, p)
       THEN IF ParseUser(p) = SyntaxError
            THEN /\ ifail' = "profile" /\ ipc' = "outerClear" /\ done' = NoResult
                 /\ istore' = store /\ UNCHANGED iout
                 /\ UNCHANGED <<user, isLoading, viewAsState, inav, ime>>
            ELSE /\ user' = ParseUser(p)                    \* line 108
                 /\ IF Truthy(w) /\ ~ViewAsParses(w)
                    THEN /\ ifail' = "viewAs" /\ ipc' = "outerClear"
                         /\ UNCHANGED <<viewAsState, ime>>
                    ELSE /\ viewAsState' =
                              IF Truthy(w) THEN ParseViewAs(w) ELSE viewAsState
                         /\ ime' = TRUE /\ ipc' = "awaitMe"  \* line 117 -> 270
                         /\ UNCHANGED ifail
                 /\ done' = NoResult
                 /\ istore' = store /\ UNCHANGED iout
                 /\ UNCHANGED <<isLoading, inav>>
       ELSE /\ InitFinally(Returned("init", inav, ifail, InitCalls), store)
            /\ UNCHANGED <<user, viewAsState>>

\* The /auth/me call of the validation step completes (lines 270-296).
InitMe ==
  /\ ipc = "awaitMe"
  /\ UNCHANGED <<confirmation, store, viewAsState, refreshLocals,
                 verifyLocals, logoutLocals, sendLocals, nextHandle, history, replaced>>
  /\ \E resp \in MeResponses :
       IF RefreshThrows(resp)
       THEN /\ ifail' = "me" /\ ipc' = "refreshClear" /\ done' = NoResult
            /\ inav' = inav \cup RefreshTryNav(resp)
            /\ UNCHANGED <<user, isLoading, ime, istore, iout>>
       ELSE /\ user' = RefreshedUser(resp)
            /\ InitFinally(Returned("init", inav \cup RefreshTryNav(resp),
                                    ifail, InitCalls), istore)

\* clearAuthData of refreshUser's catch completes (lines 296-305); when it
\* rejects, refreshUser rejects into the inner catch (lines 118-121).
InitRefreshClear ==
  /\ ipc = "refreshClear"
  /\ UNCHANGED <<confirmation, refreshLocals, verifyLocals, logoutLocals,
                 sendLocals, nextHandle, history, replaced>>
  /\ \E ok \in BOOLEAN :
       IF ok
       THEN /\ store' = ClearAuthData(store)
            /\ user' = RefreshPurgedUser(user)
            /\ viewAsState' = EmptyViewAs
            /\ InitFinally(Returned("init", inav \cup RefreshPurgedNav,
                                    ifail, InitCalls), istore)
       ELSE /\ ipc' = "innerClear" /\ done' = NoResult
            /\ UNCHANGED <<user, isLoading, viewAsState, store, ifail, inav, ime,
                           istore, iout>>

\* clearAuthData of the inner catch completes (lines 121-127); when it
\* rejects, control passes to the outer catch (lines 130-132).
InitInnerClear ==
  /\ ipc = "innerClear"
  /\ UNCHANGED <<confirmation, refreshLocals, verifyLocals,
                 logoutLocals, sendLocals, nextHandle, history, replaced>>
  /\ \E ok \in BOOLEAN :
       IF ok
       THEN /\ store' = ClearAuthData(store)
            /\ user' = Null
            /\ viewAsState' = EmptyViewAs
            /\ InitFinally(Returned("init", inav, ifail, InitCalls), istore)
       ELSE /\ ipc' = "outerClear" /\ done' = NoResult
            /\ UNCHANGED <<user, isLoading, viewAsState, store, ifail, inav, ime,
                           istore, iout>>

\* clearAuthData of the outer catch completes (lines 130-135); when it
\* rejects, initializeAuth rejects after its finally.
InitOuterClear ==
  /\ ipc = "outerClear"
  /\ UNCHANGED <<user, confirmation, viewAsState,
                 refreshLocals, verifyLocals, logoutLocals, sendLocals, nextHandle, history, replaced>>
  /\ \E ok \in BOOLEAN :
       IF ok
       THEN /\ store' = ClearAuthData(store)
            /\ InitFinally(Returned("init", inav, ifail, InitCalls), istore)
       ELSE /\ UNCHANGED store
            /\ InitFinally(Rejected("init", StoreErr, inav, ifail, InitCalls),
                           istore)

(***************************************************************************)
(* refreshUser through the context value (lines 268-307).                  *)
(***************************************************************************)
RefreshEnd(result) ==
  /\ rpc' = "idle" /\ rnav' = {} /\ rfail' = "none" /\ rout' = FALSE
  /\ done' = [result EXCEPT !.out = rout]

RefreshStart ==
  /\ rpc = "idle"
  /\ rpc' = "awaitMe"                      \* line 270
  /\ done' = NoResult
  /\ UNCHANGED <<session, rnav, rfail, rout, initLocals, verifyLocals, logoutLocals, sendLocals,
                 nextHandle, history, replaced>>

RefreshMe ==
  /\ rpc = "awaitMe"
  /\ UNCHANGED <<isLoading, confirmation, viewAsState, store, initLocals,
                 verifyLocals, logoutLocals, sendLocals, nextHandle, history, replaced>>
  /\ \E resp \in MeResponses :
       IF RefreshThrows(resp)
       THEN /\ rfail' = "me" /\ rpc' = "clear" /\ done' = NoResult
            /\ rnav' = rnav \cup RefreshTryNav(resp)
            /\ UNCHANGED <<user, rout>>
       ELSE /\ user' = RefreshedUser(resp)
            /\ RefreshEnd(Returned("refresh", rnav \cup RefreshTryNav(resp),
                                   rfail, {"me"}))

RefreshClear ==
  /\ rpc = "clear"
  /\ UNCHANGED <<isLoading, confirmation, initLocals, verifyLocals, logoutLocals,
                 sendLocals, nextHandle, history, replaced>>
  /\ \E ok \in BOOLEAN :
       IF ok
       THEN /\ store' = ClearAuthData(store)
            /\ user' = RefreshPurgedUser(user)
            /\ viewAsState' = EmptyViewAs
            /\ RefreshEnd(Returned("refresh", rnav \cup RefreshPurgedNav,
                                   rfail, {"me"}))
       ELSE /\ RefreshEnd(Rejected("refresh", StoreErr, rnav, rfail, {"me"}))
            /\ UNCHANGED <<user, viewAsState, store>>

(***************************************************************************)
(* sendOTP (lines 138-161).                                                *)
(***************************************************************************)
ProviderMsg == "provider message"

\* Faulty variant of AfterSend: a handle already held is kept.
AfterSendKeepsFirst(held, issued) == IF held # NoHandle THEN held ELSE issued

\* setConfirmation(confirmation) (line 153): the handle held afterwards.
AfterSend(held, issued) == issued

\* Phone numbers as typed, one character per element.
Digits == {"0", "1", "2", "3", "4", "5", "6", "7", "8", "9"}
IsDigit(c) == c \in Digits
Phones == { <<"9", "8", "7">>, <<"9", "8", "-", "7">>, <<" ", "9", "a">> }

\* '+91' + phoneNumber.replace(/\D/g, '') (line 145)
FormatPhone(phoneNumber) == <<"+", "9", "1">> \o SelectSeq(phoneNumber, IsDigit)

SendStart(phoneNumber) ==
  /\ spc = "idle"
  /\ nextHandle <= MaxHandles
  /\ spc' = "awaitSignIn"                  \* line 151
  /\ sphone' = FormatPhone(phoneNumber)
  /\ done' = NoResult
  /\ UNCHANGED <<session, initLocals, refreshLocals, verifyLocals, logoutLocals,
                 nextHandle, history, replaced>>

SendDone ==
  /\ spc = "awaitSignIn"
  /\ spc' = "idle" /\ sphone' = <<>>
  /\ UNCHANGED <<user, isLoading, viewAsState, store, initLocals,
                 refreshLocals, verifyLocals, logoutLocals, history>>
  /\ \E ok \in BOOLEAN :
       IF ok
       THEN /\ confirmation' = AfterSend(confirmation, nextHandle)
            /\ replaced' = confirmation
            /\ nextHandle' = nextHandle + 1
            /\ done' = [Returned("send", {}, "none", {"signIn"})
                          EXCEPT !.conf = nextHandle]
       ELSE /\ done' = Rejected("send", ProviderMsg, {}, "signIn", {"signIn"})
            /\ UNCHANGED <<challenge, nextHandle>>

(***************************************************************************)
(* verifyOTP (lines 163-228).                                              *)
(***************************************************************************)
NoConfirmationMsg == "No OTP confirmation found. Please request a new OTP."
InvalidOtpMsg == "Invalid OTP. Please check the code and try again."
ExpiredOtpMsg == "OTP has expired. Please request a new code."
VerifyFailedMsg == "OTP verification failed. Please try again."
LoginFailedMsg == "Login failed"
NetworkMsg == "Network Error"

InvalidCode == "auth/invalid-verification-code"
ExpiredCode == "auth/code-expired"
OtherCode == "auth/too-many-requests"

Roles == {"customer", "agent"}

\* Errors confirmation.confirm(otp) rejects with.
ConfirmErrors ==
  { [code |-> c, message |-> m] :
      c \in {InvalidCode, ExpiredCode, OtherCode}, m \in {ProviderMsg, ""} }

\* Errors result.user.getIdToken() rejects with.
TokenErrors == { [code |-> "auth/network-request-failed", message |-> ProviderMsg] }

\* What apiService.post('/auth/login') can produce.
LoginResponses ==
  { [thrown |-> TRUE, success |-> FALSE, user |-> Undefined,
     accessToken |-> "", error |-> ""] }
  \cup { [thrown |-> FALSE, success |-> FALSE, user |-> Undefined,
          accessToken |-> "", error |-> e] : e \in {"banned", ""} }
  \cup { [thrown |-> FALSE, success |-> TRUE, user |-> u,
          accessToken |-> a, error |-> ""] :
          u \in Users \cup NoUser, a \in AccessTokens }

\* Faulty variant of HasConfirmation: the guard is missing.
HasConfirmationUnchecked(c) == TRUE

\* if (!confirmation) (line 169)
HasConfirmation(c) == c # NoHandle

\* The role field of the /auth/login body (lines 180-183).
LoginRole(role) == "customer"

\* Faulty variant of LoginError: the response's own message is dropped.
LoginErrorGeneric(resp) == [code |-> "", message |-> LoginFailedMsg]

\* throw new Error(response.error || 'Login failed') (line 209)
LoginError(resp) ==
  [code |-> "", message |-> IF resp.error # "" THEN resp.error ELSE LoginFailedMsg]

\* Faulty variant of LoginPairs: the profile is left out of the batch.
LoginPairsWithoutProfile(resp) ==
  [k \in {"accessToken", "refreshToken"} |->
     IF k = "accessToken" THEN resp.accessToken
     ELSE RefreshTokenOf(resp.accessToken)]

\* The pairs given to multiSet (lines 193-197).
LoginPairs(resp) ==
  [k \in {"accessToken", "refreshToken", "userProfile"} |->
     CASE k = "accessToken" -> resp.accessToken
       [] k = "refreshToken" -> RefreshTokenOf(resp.accessToken)
       [] OTHER -> Stringify(resp.user)]

\* Faulty variant of NextScreen: the hint ignores whether a profile came back.
NextScreenAlwaysInitial(userData) == InitialRoute

\* let nextScreen = userData ? '/intialscreen' : '/' (line 202)
NextScreen(userData) ==
  IF userData \in NoUser THEN "/" ELSE InitialRoute

\* The message of the error the catch block rethrows (lines 218-224).
VerifyError(error) ==
  IF error.code = InvalidCode THEN InvalidOtpMsg
  ELSE IF error.code = ExpiredCode THEN ExpiredOtpMsg
  ELSE IF error.message # "" THEN error.message ELSE VerifyFailedMsg

\* Faulty variant of CaughtConfirmation: the catch block keeps the handle.
CaughtConfirmationKept(c) == c

\* setConfirmation(null) of the catch block (line 215).
CaughtConfirmation(c) == NoHandle

\* What the caller and the log saw of a verifyOTP call that ends now.
VerifyResult(okflag, msg, screen, f, calls, resp, req, err) ==
  [op |-> "verify", ok |-> okflag, message |-> msg, nextScreen |-> screen,
   nav |-> {}, fail |-> f, calls |-> calls, pre |-> vpre, conf |-> vconf,
   resp |-> resp, role |-> vrole, req |-> req, error |-> err,
   snap |-> NoSnap, over |-> vover /\ lpc = "idle", out |-> FALSE]

\* finally (line 226), and the end of the call.
VerifyFinally(result) ==
  /\ isLoading' = FALSE
  /\ vpc' = "idle" /\ vconf' = NoHandle /\ vresp' = NoLogin /\ vcalls' = {}
  /\ vpre' = NoPre /\ vrole' = "" /\ vreq' = "" /\ vover' = FALSE
  /\ done' = result

\* catch and finally (lines 211-227): the call rejects.
VerifyFail(error, f, resp) ==
  /\ confirmation' = CaughtConfirmation(confirmation)
  /\ replaced' = NoHandle
  /\ VerifyFinally(VerifyResult(FALSE, VerifyError(error), "", f, vcalls,
                                resp, vreq, error))

\* The call itself, up to the await of confirm (lines 167-174).
VerifyStart(role) ==
  /\ vpc = "idle"
  /\ UNCHANGED <<user, viewAsState, store, initLocals, refreshLocals, lpc, lpre,
                 sendLocals, nextHandle, history>>
  /\ IF HasConfirmation(confirmation)
     THEN /\ isLoading' = TRUE
          /\ vover' = (lpc # "idle")
          /\ lover' = (lover \/ lpc # "idle")
          /\ vpre' = [user |-> user, store |-> store]
          /\ vrole' = role
          /\ vconf' = confirmation /\ vcalls' = {"confirm"}
          /\ vpc' = "awaitConfirm" /\ done' = NoResult
          /\ UNCHANGED <<challenge, vresp, vreq>>
     ELSE LET error == [code |-> "", message |-> NoConfirmationMsg]   \* line 170
          IN
          /\ confirmation' = CaughtConfirmation(confirmation)
          /\ replaced' = NoHandle
          /\ isLoading' = FALSE
          /\ done' = [op |-> "verify", ok |-> FALSE,
                      message |-> VerifyError(error),
                      nextScreen |-> "", nav |-> {}, fail |-> "noChallenge",
                      calls |-> {},
                      pre |-> [user |-> user, store |-> store],
                      conf |-> confirmation, resp |-> NoLogin, role |-> role,
                      req |-> "", error |-> error,
                      snap |-> NoSnap, over |-> FALSE, out |-> FALSE]
          /\ UNCHANGED <<verifyLocals, lover>>

\* confirm completes (lines 174-175).
VerifyConfirm ==
  /\ vpc = "awaitConfirm"
  /\ UNCHANGED <<user, viewAsState, store,
                 initLocals, refreshLocals, logoutLocals, sendLocals, nextHandle, history>>
  /\ \/ /\ vcalls' = vcalls \cup {"getIdToken"}
        /\ vpc' = "awaitToken" /\ done' = NoResult
        /\ UNCHANGED <<isLoading, challenge, vconf, vresp, vpre, vrole, vreq, vover>>
     \/ \E e \in ConfirmErrors : VerifyFail(e, "confirm", vresp)

\* getIdToken completes (lines 175-183).
VerifyToken ==
  /\ vpc = "awaitToken"
  /\ UNCHANGED <<user, viewAsState, store,
                 initLocals, refreshLocals, logoutLocals, sendLocals, nextHandle, history>>
  /\ \/ /\ vcalls' = vcalls \cup {"login"}
        /\ vreq' = LoginRole(vrole)
        /\ vpc' = "awaitLogin" /\ done' = NoResult
        /\ UNCHANGED <<isLoading, challenge, vconf, vresp, vpre, vrole, vover>>
     \/ \E e \in TokenErrors : VerifyFail(e, "token", vresp)

\* The /auth/login call completes (lines 180-197, 208-210).
VerifyLogin ==
  /\ vpc = "awaitLogin"
  /\ UNCHANGED <<user, viewAsState, store,
                 initLocals, refreshLocals, logoutLocals, sendLocals, nextHandle, history>>
  /\ \E resp \in LoginResponses :
       IF resp.thrown
       THEN VerifyFail([code |-> "", message |-> NetworkMsg], "network", resp)
       ELSE IF resp.success
       THEN /\ vresp' = resp
            /\ vcalls' = vcalls \cup {"multiSet"}
            /\ vpc' = "awaitSet" /\ done' = NoResult
            /\ UNCHANGED <<isLoading, challenge, vconf, vpre, vrole, vreq, vover>>
       ELSE VerifyFail(LoginError(resp), "exchange", resp)    \* line 209

\* multiSet completes (lines 193-207).
VerifySet ==
  /\ vpc = "awaitSet"
  /\ UNCHANGED <<viewAsState, initLocals, refreshLocals, logoutLocals, sendLocals, nextHandle,
                 boot>>
  /\ \E ok \in BOOLEAN :
       IF ok /\ Storable(LoginPairs(vresp))
       THEN /\ store' = MultiSet(store, LoginPairs(vresp))
            /\ user' = vresp.user                       \* line 199
            /\ confirmation' = NoHandle                 \* line 200
            /\ replaced' = NoHandle
            /\ logins' = TRUE
            /\ VerifyFinally(VerifyResult(TRUE, "", NextScreen(vresp.user),
                                          "none", vcalls, vresp, vreq, NoError))
       ELSE /\ VerifyFail([code |-> "", message |-> StoreErr], "write", vresp)
            /\ UNCHANGED <<user, store, logins>>

(***************************************************************************)
(* logout (lines 230-254).                                                 *)
(***************************************************************************)
\* Faulty variant of LogoutFinally: the finally block is missing.
LogoutFinallyKeepsLoading(logged) ==
  /\ isLoading' = isLoading
  /\ lpc' = "idle" /\ lpre' = NoSnap /\ lover' = FALSE
  /\ done' = [NoResult EXCEPT !.op = "logout", !.fail = logged, !.snap = lpre,
                              !.over = lover /\ vpc = "idle"]

\* finally (line 252), and the end of the call: logout never rejects, the
\* failure it met is only logged (line 250).
LogoutFinally(logged) ==
  /\ isLoading' = FALSE                        \* line 252
  /\ lpc' = "idle" /\ lpre' = NoSnap /\ lover' = FALSE
  /\ done' = [NoResult EXCEPT !.op = "logout", !.fail = logged, !.snap = lpre,
                              !.over = lover /\ vpc = "idle"]

LogoutStart ==
  /\ lpc = "idle"
  /\ isLoading' = TRUE                         \* line 232
  /\ lpc' = "awaitSignOut"                     \* line 235
  /\ lpre' = IF done.op = "logout"
             THEN [after |-> TRUE, user |-> user, confirmation |-> confirmation,
                   viewAsState |-> viewAsState, store |-> store]
             ELSE NoSnap
  /\ lover' = (vpc # "idle")
  /\ vover' = (vover \/ vpc # "idle")
  /\ done' = NoResult
  /\ UNCHANGED <<user, confirmation, viewAsState, store, initLocals,
                 refreshLocals, vpc, vconf, vresp, vcalls, vpre, vrole, vreq,
                 sendLocals, nextHandle, history, replaced>>

\* signOut completes (lines 235-239, 249-252).
LogoutSignOut ==
  /\ lpc = "awaitSignOut"
  /\ UNCHANGED <<user, confirmation, viewAsState, store, initLocals,
                 refreshLocals, verifyLocals, sendLocals, nextHandle, history, replaced>>
  /\ \E ok \in BOOLEAN :
       IF ok
       THEN /\ lpc' = "awaitClear" /\ done' = NoResult
            /\ UNCHANGED <<isLoading, lpre, lover>>
       ELSE LogoutFinally("signOut")

\* clearAuthData completes (lines 239-252).
LogoutClear ==
  /\ lpc = "awaitClear"
  /\ UNCHANGED <<ipc, ifail, inav, ime, istore, rpc, rnav, rfail, verifyLocals,
                 sendLocals, nextHandle, history>>
  /\ \E ok \in BOOLEAN :
       IF ok
       THEN /\ store' = ClearAuthData(store)
            /\ user' = Null
            /\ confirmation' = NoHandle
            /\ replaced' = NoHandle
            /\ viewAsState' = EmptyViewAs
            /\ iout' = (iout \/ ipc = "awaitMe")
            /\ rout' = (rout \/ rpc = "awaitMe")
            /\ LogoutFinally("none")
       ELSE /\ LogoutFinally("remove")
            /\ UNCHANGED <<user, challenge, viewAsState, store, iout, rout>>

(***************************************************************************)
(* setUser, exposed as it is through the context value (line 320).         *)
(***************************************************************************)
SetUser(u) ==
  /\ user' = u
  /\ done' = Returned("setUser", {}, "none", {})
  /\ UNCHANGED <<isLoading, confirmation, viewAsState, store, initLocals,
                 refreshLocals, verifyLocals, logoutLocals, sendLocals, nextHandle, history, replaced>>

(***************************************************************************)
(* Specification.  Consumers call one operation at a time: a call is made  *)
(* only when no operation is in flight.                                    *)
(***************************************************************************)
Quiet ==
  /\ ipc = "done" /\ rpc = "idle" /\ vpc = "idle"
  /\ lpc = "idle" /\ spc = "idle"

CallRefresh == Quiet /\ RefreshStart
CallSend == Quiet /\ \E phoneNumber \in Phones : SendStart(phoneNumber)
CallVerify == Quiet /\ \E role \in Roles : VerifyStart(role)
CallLogout == Quiet /\ LogoutStart
CallSetUser == Quiet /\ \E u \in Users : SetUser(u)

Next ==
  \/ InitRead \/ InitMe \/ InitRefreshClear \/ InitInnerClear \/ InitOuterClear
  \/ CallRefresh \/ RefreshMe \/ RefreshClear
  \/ CallSend \/ SendDone
  \/ CallVerify \/ VerifyConfirm \/ VerifyToken \/ VerifyLogin \/ VerifySet
  \/ CallLogout \/ LogoutSignOut \/ LogoutClear
  \/ CallSetUser

Spec == Init /\ [][Next]_vars

(***************************************************************************)
(* The sign-in flow alone: after startup the consumer only requests codes, *)
(* verifies them and logs out, one operation at a time.                    *)
(***************************************************************************)
NextSignIn ==
  \/ InitRead \/ InitMe \/ InitRefreshClear \/ InitInnerClear \/ InitOuterClear
  \/ CallSend \/ SendDone
  \/ CallVerify \/ VerifyConfirm \/ VerifyToken \/ VerifyLogin \/ VerifySet
  \/ CallLogout \/ LogoutSignOut \/ LogoutClear

SpecSignIn == Init /\ [][NextSignIn]_vars

(***************************************************************************)
(* External calls return: an operation in flight is resumed.  An awaited   *)
(* promise of AsyncStorage, the identity provider or the backend settles,  *)
(* and the JavaScript event loop then runs the continuation.               *)
(***************************************************************************)
Resume ==
  \/ InitRead \/ InitMe \/ InitRefreshClear \/ InitInnerClear \/ InitOuterClear
  \/ RefreshMe \/ RefreshClear
  \/ SendDone
  \/ VerifyConfirm \/ VerifyToken \/ VerifyLogin \/ VerifySet
  \/ LogoutSignOut \/ LogoutClear

SpecFair == Init /\ [][Next]_vars /\ WF_vars(Resume)

(***************************************************************************)
(* Overlapping calls.  Nothing in the provider keeps a consumer from       *)
(* calling an operation while another one is in flight: each function of   *)
(* the context value starts whenever it is called.  One call of each       *)
(* operation is in flight at a time.  The application starts on a first    *)
(* launch or on a stored session.                                          *)
(***************************************************************************)
SignedInStore ==
  [k \in Keys |->
     CASE k = "accessToken" -> "a1"
       [] k = "refreshToken" -> RefreshTokenOf("a1")
       [] k = "userProfile" -> Stringify("u1")
       [] OTHER -> Absent]

InitOverlap == Init /\ store \in {EmptyStore, SignedInStore}

\* The operations in flight.
InFlight ==
  {o \in {"init", "refresh", "verify", "logout", "send"} :
     CASE o = "init" -> ipc # "done"
       [] o = "refresh" -> rpc # "idle"
       [] o = "verify" -> vpc # "idle"
       [] o = "logout" -> lpc # "idle"
       [] OTHER -> spc # "idle"}

\* A call can be made while fewer than MaxInFlight operations are in flight.
CanCall == Cardinality(InFlight) < MaxInFlight

OverlapRefresh == CanCall /\ RefreshStart
OverlapSend == CanCall /\ \E phoneNumber \in Phones : SendStart(phoneNumber)
OverlapVerify == CanCall /\ \E role \in Roles : VerifyStart(role)
OverlapLogout == CanCall /\ LogoutStart

NextOverlap ==
  \/ InitRead \/ InitMe \/ InitRefreshClear \/ InitInnerClear \/ InitOuterClear
  \/ OverlapRefresh \/ RefreshMe \/ RefreshClear
  \/ OverlapSend \/ SendDone
  \/ OverlapVerify \/ VerifyConfirm \/ VerifyToken \/ VerifyLogin \/ VerifySet
  \/ OverlapLogout \/ LogoutSignOut \/ LogoutClear

SpecOverlap == InitOverlap /\ [][NextOverlap]_vars

TypeOK ==
  /\ user \in Users \cup {Null}
  /\ isLoading \in BOOLEAN
  /\ confirmation \in Handles \cup {NoHandle}
  /\ viewAsState \in {EmptyViewAs, ViewingAsU1, OrphanViewAs}
  /\ DOMAIN store = Keys

(***************************************************************************)
(* Properties.  A property of the form  done.op = ... => ...  speaks of    *)
(* the state in which the named operation has just completed.              *)
(***************************************************************************)
StoreCleared == \A k \in ClearedKeys : store[k] = Absent

LoggedOut ==
  /\ user = Null
  /\ confirmation = NoHandle
  /\ viewAsState = EmptyViewAs

\* C1: when logout completes, whether signOut resolved or rejected, the four
\* persisted keys are absent from the store and user, the pending challenge
\* and the view-as state are reset.
C1_LogoutClearsLocalState ==
  (done.op = "logout" /\ done.fail \in {"none", "signOut"})
    => StoreCleared /\ LoggedOut

\* What logout does guarantee: a completed logout whose signOut and
\* multiRemove both resolved has cleared everything, and loading is off.
LogoutClearsWhenSignOutResolves ==
  (done.op = "logout" /\ done.fail = "none")
    => StoreCleared /\ LoggedOut /\ ~isLoading

\* C2: when initializeAuth completes after the batched read failed, or the
\* stored profile or the stored view-as blob failed to parse, user is absent
\* and loading is false.
C2_InitFailureStartsUnauthenticated ==
  (done.op = "init" /\ done.fail \in {"read", "profile", "viewAs"})
    => ~isAuthenticated /\ ~isLoading

\* The part of C2 the code does keep: a failed read or an unparsable profile
\* ends unauthenticated.
InitReadFailureStartsUnauthenticated ==
  (done.op = "init" /\ done.fail \in {"read", "profile"})
    => ~isAuthenticated /\ ~isLoading

\* C3: when initializeAuth completes after the /auth/me call of its
\* validation step failed, user is absent, the view-as state is empty, the
\* four persisted keys are removed and loading is false.
C3_ValidationPurge ==
  (done.op = "init" /\ done.fail = "me")
    => /\ ~isAuthenticated
       /\ viewAsState = EmptyViewAs
       /\ StoreCleared
       /\ ~isLoading

\* C4: when refreshUser completes after its /auth/me call failed, the four
\* persisted keys are removed, user is absent, the view-as state is empty
\* and the unauthenticated entry route was passed to the router.
C4_RefreshChokePoint ==
  (done.op = "refresh" /\ done.fail = "me")
    => /\ StoreCleared
       /\ ~isAuthenticated
       /\ viewAsState = EmptyViewAs
       /\ AuthRoute \in done.nav

\* What refreshUser does guarantee: when it returns (rather than rejects)
\* after a failed /auth/me, the purge of C4 has happened.
RefreshPurgesWhenItReturns ==
  (done.op = "refresh" /\ done.fail = "me" /\ done.ok)
    => /\ StoreCleared
       /\ ~isAuthenticated
       /\ viewAsState = EmptyViewAs
       /\ AuthRoute \in done.nav

SessionKeys == {"accessToken", "refreshToken", "userProfile"}

VerifyFailed == done.op = "verify" /\ ~done.ok
VerifyInFlight == vpc # "idle"

\* C5: a verifyOTP call that rejects has written none of accessToken,
\* refreshToken, userProfile and has left user as it was at the call; when
\* the store was empty at start, after a rejected call those three keys are
\* all absent, or all present with a verifyOTP having succeeded before.
C5_NoPartialPersistence ==
  VerifyFailed =>
    /\ \A k \in SessionKeys : store[k] = done.pre.store[k]
    /\ user = done.pre.user
    /\ boot => \/ \A k \in SessionKeys : store[k] = Absent
               \/ logins /\ \A k \in SessionKeys : store[k] # Absent

\* C5 witness: the batched write of a call failed while the three keys of
\* an earlier successful call are in the store.
C5_Witness ==
  /\ VerifyFailed /\ done.fail = "write"
  /\ boot /\ logins
  /\ \A k \in SessionKeys : store[k] # Absent

\* The most recent handle the provider issued.
LastIssued == nextHandle - 1

\* C6: one handle is held at most, and it is the one issued last: after a
\* sendOTP that succeeded while a handle was pending, the held handle is the
\* new one, and verifyOTP confirms against the handle issued last, never
\* against the one it replaced.
C6_SingleChallenge ==
  /\ confirmation \in {NoHandle, LastIssued}
  /\ (done.op = "send" /\ done.ok) =>
       confirmation = done.conf /\ confirmation # replaced
  /\ VerifyInFlight => vconf = LastIssued /\ vconf # replaced
  /\ (done.op = "verify" /\ "confirm" \in done.calls) => done.conf = LastIssued

\* C6 witness: verifyOTP awaits confirm on the second handle, which took the
\* place of the still pending first one.
C6_Witness ==
  /\ vpc = "awaitConfirm"
  /\ replaced = 1
  /\ vconf = 2

\* C7: verifyOTP called with no pending challenge rejects at once with the
\* 'no confirmation' message, has called neither confirm nor /auth/login,
\* leaves store and user as they were and loading false; no call awaits the
\* provider without a handle.
C7_NoChallenge ==
  /\ (done.op = "verify" /\ done.conf = NoHandle) =>
       /\ ~done.ok
       /\ done.message = "No OTP confirmation found. Please request a new OTP."
       /\ done.calls = {}
       /\ store = done.pre.store
       /\ user = done.pre.user
       /\ ~isLoading
  /\ VerifyInFlight => vconf # NoHandle

\* C7 witness: a signed-in user called verifyOTP with no challenge pending.
C7_Witness ==
  /\ done.op = "verify" /\ done.conf = NoHandle
  /\ done.pre.user \in Users
  /\ done.pre.store["accessToken"] # Absent

VerifyReturnedRoot ==
  done.op = "verify" /\ done.ok /\ done.nextScreen = "/" /\ ~isAuthenticated

ExchangeFailed ==
  /\ done.op = "verify"
  /\ "login" \in done.calls
  /\ ~done.resp.thrown /\ ~done.resp.success

\* C9: when /auth/login answers success = false, verifyOTP rejects with the
\* response's error message, or with 'Login failed' when it has none, makes
\* no store write, leaves user as it was and clears the pending challenge.
C9_ExchangeFailure ==
  ExchangeFailed =>
    /\ ~done.ok
    /\ done.message =
         IF done.resp.error # "" THEN done.resp.error ELSE "Login failed"
    /\ "multiSet" \notin done.calls
    /\ store = done.pre.store
    /\ user = done.pre.user
    /\ confirmation = NoHandle

\* C9 witness: the backend answered {success: false, error: "banned"}.
C9_Witness ==
  /\ ExchangeFailed
  /\ done.resp.error = "banned"
  /\ done.message = "banned"

\* confirm was the only call made by the verifyOTP that just completed: the
\* provider rejected the code.
CodeRejected == done.op = "verify" /\ done.calls = {"confirm"}

\* C10: when confirm rejects the code, verifyOTP clears the pending
\* challenge and rejects with the invalid-code message for
\* auth/invalid-verification-code, the expired message for auth/code-expired
\* and the provider's message for another cause; a verifyOTP call that
\* follows at once rejects with the 'no confirmation' message without
\* calling the provider.
C10_RejectedCodeNotRetryable ==
  /\ [](CodeRejected =>
          /\ ~done.ok
          /\ confirmation = NoHandle
          /\ done.error.code = "auth/invalid-verification-code" =>
               done.message = "Invalid OTP. Please check the code and try again."
          /\ done.error.code = "auth/code-expired" =>
               done.message = "OTP has expired. Please request a new code."
          /\ (/\ done.error.code \notin {"auth/invalid-verification-code",
                                         "auth/code-expired"}
              /\ done.error.message # "") =>
               done.message = done.error.message)
  /\ [][(CodeRejected /\ (vpc' # "idle" \/ done'.op = "verify")) =>
          /\ done'.op = "verify"
          /\ done'.message = "No OTP confirmation found. Please request a new OTP."
          /\ done'.calls = {}]_vars

\* C10 witness: confirm rejected the code as expired.
C10_Witness ==
  /\ CodeRejected
  /\ done.error.code = "auth/code-expired"
  /\ done.message = "OTP has expired. Please request a new code."
  /\ confirmation = NoHandle

(***************************************************************************)
(* Loading flag.                                                           *)
(***************************************************************************)
\* The operations during which the loading flag is to be set.
LoadingOps == {"init", "verify", "refresh", "logout"}

\* C11: in every reachable state isLoading is true if and only if at least
\* one of initializeAuth, verifyOTP, refreshUser or logout has started and
\* not yet completed.
C11_LoadingIffInFlight ==
  isLoading <=> (InFlight \cap LoadingOps # {})

\* The operations that set the loading flag and clear it in a finally block.
FinalizedOps == {"init", "verify", "logout"}

\* C12: with one operation at a time, isLoading is true while
\* initializeAuth, verifyOTP or logout is in flight and false in the state
\* in which it has completed, on every exit path; and when the external
\* calls return, each of them once in flight completes with isLoading false.
C12_LoadingFinalizer ==
  /\ [](\A o \in FinalizedOps : o \in InFlight => isLoading)
  /\ [](done.op \in FinalizedOps => ~isLoading)
  /\ \A o \in FinalizedOps :
       (o \in InFlight) ~> (done.op = o /\ ~isLoading)

\* C12 witness: verifyOTP has completed through the failure of the batched
\* write, and isLoading is false.
C12_Witness ==
  /\ done.op = "verify" /\ done.fail = "write"
  /\ ~isLoading

(***************************************************************************)
(* Failures of refreshUser and initializeAuth.                             *)
(***************************************************************************)
\* C13: refreshUser and initializeAuth never reject, whichever of the
\* backend call, the batched read and the batched removal of the purge
\* fails.
C13_SilentFailure ==
  done.op \in {"init", "refresh"} => done.ok

(***************************************************************************)
(* Persisted session.                                                      *)
(***************************************************************************)
\* The store holds an access credential.
CredentialStored == Truthy(store["accessToken"])

\* The store holds a user profile: a blob that decodes to a user.
ProfileStored == ParseUser(store["userProfile"]) \in Users

\* C14: when the application started on an empty store, in every state with
\* no operation in flight the access credential and the user profile are
\* both stored or both not stored, and user is present only when both are
\* stored.
C14_NoPartialSession ==
  (boot /\ Quiet) =>
     /\ CredentialStored <=> ProfileStored
     /\ user # Null => (CredentialStored /\ ProfileStored)

(***************************************************************************)
(* Logout twice.                                                           *)
(***************************************************************************)
\* The state a logout was called in, for a logout called directly after a
\* logout completed: the state the first of the two calls ended in.
AfterFirstLogout ==
  [after |-> TRUE, user |-> user, confirmation |-> confirmation,
   viewAsState |-> viewAsState, store |-> store]

\* C15: logout completes successfully with the four persisted keys absent;
\* and a logout called directly after a logout completed ends in the state
\* the first one ended in (user, confirmation, viewAsState, store and
\* isLoading).
C15_LogoutIdempotent ==
  /\ done.op = "logout" => (done.ok /\ StoreCleared)
  /\ (done.op = "logout" /\ done.snap.after) =>
        (done.snap = AfterFirstLogout /\ ~isLoading)

(***************************************************************************)
(* Startup on an incomplete session.                                       *)
(***************************************************************************)
\* The access credential or the profile is missing from a store.
Incomplete(st) == st["accessToken"] = Absent \/ st["userProfile"] = Absent

\* C16: when the access credential or the profile is missing from the store
\* at startup, initializeAuth calls no backend and no router, neither while
\* it runs nor by the time it has completed, and it completes with user
\* absent, the view-as state empty and isLoading false.
C16_IncompleteSessionSkipsValidation ==
  /\ (ipc \notin {"multiGet", "done"} /\ Incomplete(istore)) =>
        (~ime /\ inav = {})
  /\ (done.op = "init" /\ Incomplete(done.pre.store)) =>
        /\ done.calls = {} /\ done.nav = {}
        /\ user = Null
        /\ viewAsState = EmptyViewAs
        /\ ~isLoading

\* C16 witness: initializeAuth has completed on a store that held an access
\* credential and no profile.
C16_Witness ==
  /\ done.op = "init" /\ done.ok
  /\ done.pre.store["accessToken"] = "a1"
  /\ done.pre.store["userProfile"] = Absent
  /\ done.calls = {} /\ user = Null /\ ~isLoading

(***************************************************************************)
(* View-as state.                                                          *)
(***************************************************************************)
\* C17: in every reachable state, whatever view-as blob the store held at
\* startup, viewAsState.originalUser is present exactly when
\* viewAsState.isViewingAs is true.
C17_ViewAsInvariant ==
  viewAsState.isViewingAs <=> (viewAsState.originalUser # Null)

(***************************************************************************)
(* Overlapping operations.                                                 *)
(***************************************************************************)
\* C18: when a verifyOTP and a logout have overlapped and the second of
\* them completes, neither is in flight, isLoading is false, and user is
\* absent if it is the logout that completed last and the returned profile
\* if it is a successful verifyOTP.
C18_LastWriteWins ==
  done.over =>
     /\ InFlight \cap {"verify", "logout"} = {}
     /\ ~isLoading
     /\ done.op = "logout" => user = Null
     /\ (done.op = "verify" /\ done.ok) => user = done.resp.user

\* C19: when a logout has completed successfully while a refreshUser,
\* called on its own or as the validation step of initializeAuth, was
\* awaiting the backend, then once that call has completed too and nothing
\* is in flight, user is absent.
C19_LogoutNotUndone ==
  (done.op \in {"refresh", "init"} /\ done.out /\ InFlight = {})
  => user = Null

(***************************************************************************)
(* The login request.                                                      *)
(***************************************************************************)
\* C20: for every role passed to verifyOTP, the role field of the body it
\* posts to /auth/login is that role, while the request is pending and in
\* the result of the call.
C20_RoleForwarded ==
  /\ vpc \in {"awaitLogin", "awaitSet"} => vreq = vrole
  /\ (done.op = "verify" /\ "login" \in done.calls) => done.req = done.role

====
